---------------------------- MODULE Spec2Model ----------------------------
(***************************************************************************)
(* Model of spdx-builder: scanner.py (scanPackage and its helpers),        *)
(* util.py (getHashes), sbom.py (makeSPDXDocument, makeAndWriteSPDX) and   *)
(* writer.py (the JSON projection).                                        *)
(*                                                                         *)
(* Python strings are sequences of one-character strings, so that strip,   *)
(* partition, re.sub, split, sorted and join are computed character by     *)
(* character, as the code computes them.                                   *)
(***************************************************************************)
EXTENDS Integers, Sequences, FiniteSets, TLC

(***************************************************************************)
(* Bounds of the model.                                                    *)
(***************************************************************************)
\* longest file list handed to scanPackage
MaxListLen == 2
\* longest builds file list in a run of makeAndWriteSPDX
MaxBuildLen == 1

(***************************************************************************)
(* Characters and strings.                                                 *)
(***************************************************************************)
\* ord(): the code points of the characters that occur in the model
Ord ==
    ("\n" :> 10) @@ (" " :> 32) @@ ("#" :> 35) @@ ("(" :> 40) @@ (")" :> 41)
 @@ ("*" :> 42) @@ ("+" :> 43) @@ ("-" :> 45) @@ ("." :> 46) @@ ("/" :> 47)
 @@ ("0" :> 48) @@ ("1" :> 49) @@ ("2" :> 50) @@ ("3" :> 51) @@ ("4" :> 52)
 @@ ("5" :> 53) @@ ("6" :> 54) @@ ("7" :> 55) @@ ("8" :> 56) @@ ("9" :> 57)
 @@ (":" :> 58) @@ (";" :> 59)
 @@ ("A" :> 65) @@ ("B" :> 66) @@ ("C" :> 67) @@ ("D" :> 68) @@ ("E" :> 69)
 @@ ("F" :> 70) @@ ("G" :> 71) @@ ("H" :> 72) @@ ("I" :> 73) @@ ("J" :> 74)
 @@ ("K" :> 75) @@ ("L" :> 76) @@ ("M" :> 77) @@ ("N" :> 78) @@ ("O" :> 79)
 @@ ("P" :> 80) @@ ("Q" :> 81) @@ ("R" :> 82) @@ ("S" :> 83) @@ ("T" :> 84)
 @@ ("U" :> 85) @@ ("V" :> 86) @@ ("W" :> 87) @@ ("X" :> 88) @@ ("Y" :> 89)
 @@ ("Z" :> 90)
 @@ ("a" :> 97) @@ ("b" :> 98) @@ ("c" :> 99) @@ ("d" :> 100) @@ ("e" :> 101)
 @@ ("f" :> 102) @@ ("g" :> 103) @@ ("h" :> 104) @@ ("i" :> 105) @@ ("j" :> 106)
 @@ ("k" :> 107) @@ ("l" :> 108) @@ ("m" :> 109) @@ ("n" :> 110) @@ ("o" :> 111)
 @@ ("p" :> 112) @@ ("q" :> 113) @@ ("r" :> 114) @@ ("s" :> 115) @@ ("t" :> 116)
 @@ ("u" :> 117) @@ ("v" :> 118) @@ ("w" :> 119) @@ ("x" :> 120) @@ ("y" :> 121)
 @@ ("z" :> 122)

\* the characters str.strip() and str.rstrip() remove
Whitespace == {" ", "\n"}

\* re.IGNORECASE: two characters match when they are the same letter
SameLetter(c, d) ==
    \/ c = d
    \/ Ord[c] \in 97..122 /\ Ord[c] - 32 = Ord[d]
    \/ Ord[d] \in 97..122 /\ Ord[d] - 32 = Ord[c]

\* comparison of two Python strings (code point by code point): s < t
StrLess(s, t) ==
    LET n == IF Len(s) < Len(t) THEN Len(s) ELSE Len(t)
        diff == {i \in 1..n : s[i] # t[i]}
    IN  IF diff = {} THEN Len(s) < Len(t)
        ELSE LET i == CHOOSE j \in diff : \A k \in diff : j <= k
             IN  Ord[s[i]] < Ord[t[i]]

StrLeq(s, t) == s = t \/ StrLess(s, t)

\* sorted(list) of strings: insertion of each element into a sorted prefix
RECURSIVE InsertSorted(_, _)
InsertSorted(x, sorted) ==
    IF sorted = <<>> THEN <<x>>
    ELSE IF StrLess(x, Head(sorted)) THEN <<x>> \o sorted
    ELSE <<Head(sorted)>> \o InsertSorted(x, Tail(sorted))

RECURSIVE SortedList(_)
SortedList(list) ==
    IF list = <<>> THEN <<>>
    ELSE InsertSorted(list[Len(list)], SortedList(SubSeq(list, 1, Len(list) - 1)))

\* sorted(list(aSet))
RECURSIVE SortedOfSet(_)
SortedOfSet(S) ==
    IF S = {} THEN <<>>
    ELSE LET x == CHOOSE y \in S : \A z \in S : StrLeq(y, z)
         IN  <<x>> \o SortedOfSet(S \ {x})

\* str.rstrip(chars)
RStrip(s, chars) ==
    LET keep == {i \in 1..Len(s) : s[i] \notin chars}
    IN  IF keep = {} THEN <<>>
        ELSE SubSeq(s, 1, CHOOSE i \in keep : \A k \in keep : k <= i)

\* str.lstrip(chars)
LStrip(s, chars) ==
    LET keep == {i \in 1..Len(s) : s[i] \notin chars}
    IN  IF keep = {} THEN <<>>
        ELSE SubSeq(s, CHOOSE i \in keep : \A k \in keep : i <= k, Len(s))

\* str.strip()
Strip(s) == LStrip(RStrip(s, Whitespace), Whitespace)

\* s[i:].startswith(p)
StartsWithAt(s, i, p) ==
    /\ i + Len(p) - 1 <= Len(s)
    /\ \A k \in 1..Len(p) : s[i + k - 1] = p[k]

StartsWith(s, p) == StartsWithAt(s, 1, p)

\* sep.join(list[lo..hi]), by halves
RECURSIVE JoinRange(_, _, _, _)
JoinRange(sep, list, lo, hi) ==
    IF lo > hi THEN <<>>
    ELSE IF lo = hi THEN list[lo]
    ELSE LET mid == (lo + hi) \div 2
         IN  JoinRange(sep, list, lo, mid) \o sep \o JoinRange(sep, list, mid + 1, hi)

\* sep.join(list)
Join(sep, list) == JoinRange(sep, list, 1, Len(list))

\* str.partition(sep)[2]: what follows the first occurrence of sep ("" if none)
PartitionAfter(s, sep) ==
    LET hits == {i \in 1..Len(s) : StartsWithAt(s, i, sep)}
    IN  IF hits = {} THEN <<>>
        ELSE LET i == CHOOSE j \in hits : \A k \in hits : j <= k
             IN  SubSeq(s, i + Len(sep), Len(s))

\* the elements of a set of numbers in increasing order
Ascending(P) ==
    [k \in 1..Cardinality(P) |-> CHOOSE p \in P : Cardinality({q \in P : q < p}) = k - 1]

\* str.split(" "): cut at every single space, empty pieces kept
SplitOnSpace(s) ==
    LET cuts == Ascending({i \in 1..Len(s) : s[i] = " "})
        n == Len(cuts)
        from(k) == IF k = 1 THEN 1 ELSE cuts[k - 1] + 1
        to(k) == IF k = n + 1 THEN Len(s) ELSE cuts[k] - 1
    IN  [k \in 1..(n + 1) |-> SubSeq(s, from(k), to(k))]

(***************************************************************************)
(* Literals of the source.                                                 *)
(***************************************************************************)
NOASSERTION == <<"N","O","A","S","S","E","R","T","I","O","N">>
NONE == <<"N","O","N","E">>
SPDXTag == <<"S","P","D","X","-","L","i","c","e","n","s","e","-","I","d","e","n","t","i","f","i","e","r",":">>
LicenseRefPrefix == <<"L","i","c","e","n","s","e","R","e","f","-">>
AndSep == <<" ","A","N","D"," ">>


\* Python's None, where a string is expected (no Python string equals it)
None == <<"None">>

(***************************************************************************)
(* hashlib: a digest is a fixed-length lowercase hex string computed from  *)
(* the bytes alone.  The digests are short stand-ins for SHA-1 and SHA-256: *)
(* deterministic, sensitive to the order of the bytes, never empty.        *)
(***************************************************************************)
HexDigit == <<"0","1","2","3","4","5","6","7","8","9","a","b","c","d","e","f">>

\* the sum over bytes[lo..hi] of position times byte plus mult, by halves
RECURSIVE FoldBytes(_, _, _, _)
FoldBytes(bytes, lo, hi, mult) ==
    IF lo > hi THEN 0
    ELSE IF lo = hi THEN (lo * (Ord[bytes[lo]] + mult)) % 4096
    ELSE LET mid == (lo + hi) \div 2
         IN  (FoldBytes(bytes, lo, mid, mult) + FoldBytes(bytes, mid + 1, hi, mult)) % 4096

\* hashlib.sha1(bytes).hexdigest()
sha1_hexdigest(bytes) ==
    LET h == (FoldBytes(bytes, 1, Len(bytes), 31) + 7) % 256
    IN  <<HexDigit[(h \div 16) + 1], HexDigit[(h % 16) + 1]>>

\* hashlib.sha256(bytes).hexdigest()
sha256_hexdigest(bytes) ==
    LET h == (FoldBytes(bytes, 1, Len(bytes), 37) + 11) % 4096
    IN  <<HexDigit[(h \div 256) + 1], HexDigit[((h \div 16) % 16) + 1], HexDigit[(h % 16) + 1]>>

(***************************************************************************)
(* scanner.py: the license expression of a file.                           *)
(***************************************************************************)
\* parseLineForExpression(line)
parseLineForExpression(line) ==
    LET p2 == PartitionAfter(line, SPDXTag)
    IN  IF p2 = <<>> THEN None
        ELSE Strip(RStrip(Strip(p2), {"/", "*"}))

\* the loop of getExpressionData, had it stopped one line early (>= for >)
RECURSIVE ScanLines_StopsEarly(_, _, _)
ScanLines_StopsEarly(lines, lineno, numLines) ==
    IF lineno > Len(lines) THEN None
    ELSE IF lineno >= numLines /\ numLines > 0 THEN None
    ELSE LET expression == parseLineForExpression(lines[lineno])
         IN  IF expression # None THEN expression
             ELSE ScanLines_StopsEarly(lines, lineno + 1, numLines)

\* the loop of getExpressionData over the lines of an opened text file
RECURSIVE ScanLines(_, _, _)
ScanLines(lines, lineno, numLines) ==
    IF lineno > Len(lines) THEN None
    ELSE IF lineno > numLines /\ numLines > 0 THEN None
    ELSE LET expression == parseLineForExpression(lines[lineno])
         IN  IF expression # None THEN expression
             ELSE ScanLines(lines, lineno + 1, numLines)

\* getExpressionData(filePath, numLines), on the file at filePath; decoding the
\* content fails (UnicodeDecodeError) when the file is not valid UTF-8
getExpressionData(file, numLines) ==
    IF ~file.utf8 THEN None
    ELSE ScanLines(file.lines, 1, numLines)

\* re.sub(r'\(|\)|\+', "", expression)
NotParenOrPlus(c) == c \notin {"(", ")", "+"}
RemoveParensPlus(e) == SelectSeq(e, NotParenOrPlus)

\* the pattern at position i of e, letters compared without case
MatchesAt(e, i, pattern) ==
    /\ i + Len(pattern) - 1 <= Len(e)
    /\ \A k \in 1..Len(pattern) : SameLetter(e[i + k - 1], pattern[k])

\* the length of the match of r' AND | OR | WITH ' at position i of e, 0 if none
OperatorAt(e, i) ==
    IF MatchesAt(e, i, <<" ","A","N","D"," ">>) THEN 5
    ELSE IF MatchesAt(e, i, <<" ","O","R"," ">>) THEN 4
    ELSE IF MatchesAt(e, i, <<" ","W","I","T","H"," ">>) THEN 6
    ELSE 0

\* re.sub(r' AND | OR | WITH ', " ", e2, flags=re.IGNORECASE) from position i
\* on: matches are found left to right and do not overlap
RECURSIVE ReplaceOperators(_, _)
ReplaceOperators(e, i) ==
    LET hits == {j \in i..Len(e) : OperatorAt(e, j) > 0}
    IN  IF hits = {} THEN SubSeq(e, i, Len(e))
        ELSE LET j == CHOOSE h \in hits : \A k \in hits : h <= k
             IN  SubSeq(e, i, j - 1) \o <<" ">> \o ReplaceOperators(e, j + OperatorAt(e, j))

\* splitExpression(expression)
splitExpression(expression) ==
    LET e2 == RemoveParensPlus(expression)
        e3 == ReplaceOperators(e2, 1)
        e4 == SplitOnSpace(e3)
    IN  SortedList(e4)

(***************************************************************************)
(* scanner.py: the package-level data.  pkg.files is a dict in insertion   *)
(* order: here the sequence of its values.                                 *)
(***************************************************************************)
Range(seq) == {seq[i] : i \in 1..Len(seq)}

\* calculateVerificationCode without hashes.sort()
calculateVerificationCode_Unsorted(files) ==
    LET hashes == [i \in 1..Len(files) |-> files[i].sha1]
        filelist == Join(<<>>, hashes)
    IN  sha1_hexdigest(filelist)

\* calculateVerificationCode(pkg), from pkg.files.values()
calculateVerificationCode(files) ==
    LET hashes == [i \in 1..Len(files) |-> files[i].sha1]
        filelist == Join(<<>>, SortedList(hashes))
    IN  sha1_hexdigest(filelist)

\* getPackageLicenses(pkg): <<licsConcluded, licsFromFiles>>
getPackageLicenses(files) ==
    LET licsConcluded == {f.concludedLicense : f \in Range(files)}
        licsFromFiles == UNION {Range(f.licenseInfoInFile) : f \in Range(files)}
    IN  <<SortedOfSet(licsConcluded), SortedOfSet(licsFromFiles)>>

\* the loop of normalizeExpression, had it put no expression in parentheses
RECURSIVE Revised_NoParens(_)
Revised_NoParens(licsConcluded) ==
    IF licsConcluded = <<>> THEN <<>>
    ELSE LET lic == Head(licsConcluded)
         IN  IF lic \in {NONE, NOASSERTION} THEN Revised_NoParens(Tail(licsConcluded))
             ELSE <<lic>> \o Revised_NoParens(Tail(licsConcluded))

\* the loop of normalizeExpression that builds the list revised
RECURSIVE Revised(_)
Revised(licsConcluded) ==
    IF licsConcluded = <<>> THEN <<>>
    ELSE LET lic == Head(licsConcluded)
         IN  IF lic \in {NONE, NOASSERTION} THEN Revised(Tail(licsConcluded))
             ELSE IF " " \in Range(lic)
                  THEN <<<<"(">> \o lic \o <<")">>>> \o Revised(Tail(licsConcluded))
             ELSE <<lic>> \o Revised(Tail(licsConcluded))

\* normalizeExpression(licsConcluded)
normalizeExpression(licsConcluded) ==
    IF Len(licsConcluded) = 0 THEN NOASSERTION
    ELSE IF Len(licsConcluded) = 1 THEN licsConcluded[1]
    ELSE Join(AndSep, Revised(licsConcluded))


(***************************************************************************)
(* The files on disk: the inputs of a run.  A text file is the sequence of *)
(* its lines, each with its line end.                                      *)
(***************************************************************************)
MIT == <<"M","I","T">>
Apache20 == <<"A","p","a","c","h","e","-","2",".","0">>
MITorApache == <<"M","I","T"," ","O","R"," ","A","p","a","c","h","e","-","2",".","0">>
ApacheAndMITorApachePlus == <<"A","p","a","c","h","e","-","2",".","0"," ","A","N","D"," ","(","M","I","T"," ","o","r"," ","A","p","a","c","h","e","-","2",".","0","+",")">>
LicenseRefX == <<"L","i","c","e","n","s","e","R","e","f","-","X">>
MITandLicenseRefX == <<"M","I","T"," ","A","N","D"," ","L","i","c","e","n","s","e","R","e","f","-","X">>
LicenseRefXandMIT == <<"L","i","c","e","n","s","e","R","e","f","-","X"," ","A","N","D"," ","M","I","T">>
CodeLine == <<"i","n","t"," ","x",";","\n">>

\* a line that carries the tag: prefix, the tag, a space, the expression, suffix
Tagged(prefix, expression, suffix) ==
    prefix \o SPDXTag \o <<" ">> \o expression \o suffix

TextFile(lines) == [kind |-> "file", utf8 |-> TRUE, lines |-> lines]
BinaryFile(lines) == [kind |-> "file", utf8 |-> FALSE, lines |-> lines]
Directory == [kind |-> "dir", utf8 |-> FALSE, lines |-> <<>>]
Missing == [kind |-> "missing", utf8 |-> FALSE, lines |-> <<>>]

srcdir == <<"/","s">>
builddir == <<"/","b">>

Disk ==
    (srcdir :> Directory) @@ (builddir :> Directory)
 @@ (<<"/","s","/","a">> :> TextFile(<<CodeLine, Tagged(<<"/","/"," ">>, MIT, <<"\n">>)>>))
 @@ (<<"/","s","/","b">> :> TextFile(<<CodeLine, <<"\n">>,
                         Tagged(<<"/","*"," ">>, MITorApache, <<" ","*","/","\n">>)>>))
 @@ (<<"/","s","/","n">> :> TextFile(<<Tagged(<<"#"," ">>, NONE, <<"\n">>)>>))
 @@ (<<"/","s","/","x">> :> TextFile(<<CodeLine>>))
 @@ (<<"/","s","/","t">> :> TextFile([i \in 1..20 |-> <<"\n">>]
                       \o <<Tagged(<<"/","/"," ">>, MIT, <<>>)>>))
 @@ (<<"/","s","/","u">> :> BinaryFile(<<Tagged(<<"#"," ">>, MIT, <<"\n">>), <<"\n">>>>))
 @@ (<<"/","s","/","d">> :> TextFile(<<Tagged(<<"#"," ">>, ApacheAndMITorApachePlus, <<"\n">>)>>))
 @@ (<<"/","s","/","l">> :> TextFile(<<Tagged(<<"#"," ">>, LicenseRefX, <<"\n">>)>>))
 @@ (<<"/","s","/","e">> :> TextFile(<<<<"/","/"," ">> \o SPDXTag \o <<"\n">>,
                         Tagged(<<"/","/"," ">>, MIT, <<"\n">>)>>))
 @@ (<<"/","b","/","o">> :> TextFile(<<CodeLine, CodeLine>>))
 @@ (<<"/","b","/","a">> :> TextFile(<<Tagged(<<"#"," ">>, Apache20, <<"\n">>)>>))

\* the file a path names (open() raises OSError unless kind is "file")
FileAt(path) == IF path \in DOMAIN Disk THEN Disk[path] ELSE Missing

\* the bytes of a file
Bytes(file) == Join(<<>>, file.lines)

\* os.path.normpath(os.path.join(os.path.abspath(basedir), relpath)), for a
\* relative path without ".", ".." or doubled separators: an empty relative
\* path names the base directory itself
AbsPath(basedir, relpath) ==
    IF relpath = <<>> THEN basedir ELSE basedir \o <<"/">> \o relpath

\* util.getHashes(filePath): None, or <<SHA1, SHA256>>
getHashes(filePath) ==
    LET file == FileAt(filePath)
    IN  IF file.kind # "file" THEN None
        ELSE <<sha1_hexdigest(Bytes(file)), sha256_hexdigest(Bytes(file))>>

(***************************************************************************)
(* Python dicts keep insertion order: a dict is the sequence of its items. *)
(***************************************************************************)
DictKeys(d) == [i \in 1..Len(d) |-> d[i].k]
DictValues(d) == [i \in 1..Len(d) |-> d[i].v]
HasKey(d, k) == \E i \in 1..Len(d) : d[i].k = k

\* d[k] = v
DictSet(d, k, v) ==
    IF HasKey(d, k)
    THEN [i \in 1..Len(d) |-> IF d[i].k = k THEN [k |-> k, v |-> v] ELSE d[i]]
    ELSE Append(d, [k |-> k, v |-> v])

\* d[k]
DictGet(d, k) == d[CHOOSE i \in 1..Len(d) : d[i].k = k].v

(***************************************************************************)
(* Configurations and data types (scanner.py, datatypes.py, sbom.py).      *)
(***************************************************************************)
\* ScannerConfig(): the defaults
ScannerConfig ==
    [shouldConcludePackageLicense |-> TRUE,
     shouldConcludeFileLicenses |-> TRUE,
     numLinesScanned |-> 20,
     doSHA256 |-> TRUE]

\* the scanner configurations scanPackage is called with: the defaults, and
\* the defaults with one setting changed
ScannerConfigs ==
    {ScannerConfig,
     [ScannerConfig EXCEPT !.shouldConcludePackageLicense = FALSE],
     [ScannerConfig EXCEPT !.shouldConcludeFileLicenses = FALSE],
     [ScannerConfig EXCEPT !.doSHA256 = FALSE],
     [ScannerConfig EXCEPT !.numLinesScanned = 0],
     [ScannerConfig EXCEPT !.numLinesScanned = 2]}

\* SBOMConfig() after argparse: the positional arguments, the other defaults
SBOMConfig ==
    [sourceList |-> "sources.txt", srcdir |-> srcdir,
     buildList |-> "builds.txt", builddir |-> builddir,
     namespacePrefix |-> "http://spdx.org/spdxdocs/ns",
     packageName |-> "mycode", packageVersion |-> "",
     packageDeclaredLicense |-> NOASSERTION,
     supplierPerson |-> "", supplierOrganization |-> ""]

\* the configurations the command line can give: --package-license sets
\* packageDeclaredLicense to any string (sbom.py:100-101)
SBOMConfigs ==
    {[SBOMConfig EXCEPT !.packageDeclaredLicense = l] :
        l \in {NOASSERTION, LicenseRefX, MITandLicenseRefX, LicenseRefXandMIT}}

\* the PackageConfig makeAndWriteSPDX builds for the sources package
PackageConfigSources(sbomCfg) ==
    [fileListPath |-> sbomCfg.sourceList,
     basedir |-> sbomCfg.srcdir,
     name |-> IF sbomCfg.packageName # "" THEN sbomCfg.packageName \o " sources"
              ELSE "sources",
     version |-> sbomCfg.packageVersion,
     declaredLicense |-> sbomCfg.packageDeclaredLicense,
     supplierOrg |-> sbomCfg.supplierOrganization,
     supplierPerson |-> IF sbomCfg.supplierOrganization # "" THEN ""
                        ELSE sbomCfg.supplierPerson,
     spdxID |-> "SPDXRef-Package-sources",
     copyrightText |-> NOASSERTION]

\* the PackageConfig makeAndWriteSPDX builds for the builds package
PackageConfigBuilds(sbomCfg) ==
    [fileListPath |-> sbomCfg.buildList,
     basedir |-> sbomCfg.builddir,
     name |-> IF sbomCfg.packageName # "" THEN sbomCfg.packageName \o " builds"
              ELSE "builds",
     version |-> sbomCfg.packageVersion,
     declaredLicense |-> sbomCfg.packageDeclaredLicense,
     supplierOrg |-> sbomCfg.supplierOrganization,
     supplierPerson |-> IF sbomCfg.supplierOrganization # "" THEN ""
                        ELSE sbomCfg.supplierPerson,
     spdxID |-> "SPDXRef-Package-builds",
     copyrightText |-> NOASSERTION]

\* Package(cfg)
Package(cfg) ==
    [isNone |-> FALSE,
     cfg |-> cfg,
     verificationCode |-> <<>>,
     concludedLicense |-> NOASSERTION,
     licenseInfoFromFiles |-> <<>>,
     files |-> <<>>]

\* None, where a Package or a Document is expected
NoneObject == [isNone |-> TRUE]

\* File(pkg)
File ==
    [abspath |-> <<>>,
     relpath |-> <<>>,
     spdxID |-> "",
     sha1 |-> <<>>,
     sha256 |-> <<>>,
     concludedLicense |-> NOASSERTION,
     licenseInfoInFile |-> <<>>,
     copyrightText |-> NOASSERTION]

\* uuid.uuid4(): the n-th value drawn; no value is drawn twice
uuid4(n) == "uuid" \o ToString(n)

\* f"SPDXRef-File-{str(uuid.uuid4())}"
FileSPDXID(n) == "SPDXRef-File-" \o uuid4(n)

(***************************************************************************)
(* The file lists: the text files pkgCfg.fileListPath names.               *)
(***************************************************************************)
ListFile(lines) == [kind |-> "file", utf8 |-> TRUE, lines |-> lines]

\* every sequence over S of length at most n
SeqsUpTo(S, n) == UNION {[1..k -> S] : k \in 0..n}

\* the lines a file list handed to scanPackage is made of: a path with its line
\* end, a path followed by a space, an empty line
ScanListLines ==
    {<<"a","\n">>, <<"b","\n">>, <<"n","\n">>, <<"x","\n">>, <<"m","\n">>,
     <<"t","\n">>, <<"u","\n">>, <<"d","\n">>, <<"l","\n">>, <<"e","\n">>,
     <<"a"," ","\n">>, <<"\n">>}

\* the lines of the sources and of the builds list of a run of makeAndWriteSPDX
SourceListLines ==
    {<<"a","\n">>, <<"x","\n">>, <<"m","\n">>, <<"l","\n">>, <<"\n">>}
BuildListLines == {<<"o","\n">>, <<"a","\n">>, <<"m","\n">>}

\* a file list: readable text, not there, or not valid UTF-8
ListFiles(lines, n) ==
    {ListFile(l) : l \in SeqsUpTo(lines, n)} \cup {Missing, BinaryFile(<<>>)}

(***************************************************************************)
(* State.                                                                  *)
(***************************************************************************)
VARIABLES
    sbomCfg,      \* the SBOMConfig of the run
    listFile,     \* file list path -> the file there
    phase,        \* position in makeAndWriteSPDX ("direct": scanPackage alone)
    scanCfg,      \* scanPackage's argument scanCfg
    pkgCfg,       \* scanPackage's argument pkgCfg
    pc,           \* position in scanPackage
    filesToScan,  \* scanPackage's local filesToScan
    idx,          \* index in filesToScan of the loop's current fileRelPath
    pkg,          \* scanPackage's local pkg
    f,            \* spdxID of the File the loop variable f refers to
    ret,          \* what scanPackage returned
    uuids,        \* number of uuid4() values drawn so far
    srcPkg,       \* makeAndWriteSPDX's local srcPkg
    buildPkg,     \* makeAndWriteSPDX's local buildPkg
    doc,          \* makeAndWriteSPDX's local doc
    written       \* the JSON document written to doc.spdx.json

vars == <<sbomCfg, listFile, phase, scanCfg, pkgCfg, pc, filesToScan, idx, pkg,
          f, ret, uuids, srcPkg, buildPkg, doc, written>>

scanLocals == <<filesToScan, idx, pkg, f, ret, uuids>>
callerVars == <<sbomCfg, listFile, phase, scanCfg, pkgCfg, srcPkg, buildPkg, doc, written>>

\* the state at the call of scanPackage
ScanEntry ==
    /\ pc = "load"
    /\ filesToScan = <<>>
    /\ idx = 0
    /\ pkg = NoneObject
    /\ f = ""
    /\ ret = NoneObject

\* makeAndWriteSPDX(sbomCfg), at its first call of scanPackage
Init ==
    /\ sbomCfg \in SBOMConfigs
    /\ \E s \in ListFiles(SourceListLines, MaxListLen),
          b \in ListFiles(BuildListLines, MaxBuildLen) :
            listFile = (sbomCfg.sourceList :> s) @@ (sbomCfg.buildList :> b)
    /\ phase = "sources"
    /\ scanCfg = ScannerConfig
    /\ pkgCfg = PackageConfigSources(sbomCfg)
    /\ ScanEntry
    /\ uuids = 0
    /\ srcPkg = NoneObject
    /\ buildPkg = NoneObject
    /\ doc = NoneObject
    /\ written = NoneObject

\* scanPackage(scanCfg, pkgCfg) called on its own
InitScan ==
    /\ sbomCfg = SBOMConfig
    /\ \E s \in ListFiles(ScanListLines, MaxListLen) :
            listFile = (sbomCfg.sourceList :> s) @@ (sbomCfg.buildList :> Missing)
    /\ phase = "direct"
    /\ scanCfg \in ScannerConfigs
    /\ pkgCfg = PackageConfigSources(sbomCfg)
    /\ ScanEntry
    /\ uuids = 0
    /\ srcPkg = NoneObject
    /\ buildPkg = NoneObject
    /\ doc = NoneObject
    /\ written = NoneObject

(***************************************************************************)
(* scanPackage.                                                            *)
(***************************************************************************)
\* filesToScan: l.rstrip() for every line of the list
StrippedLines(lines) == [i \in 1..Len(lines) |-> RStrip(lines[i], Whitespace)]

\* LoadFileList, had it returned an empty Package where the list cannot be opened
LoadFileList_EmptyPackageOnError ==
    /\ pc = "load"
    /\ LET flist == listFile[pkgCfg.fileListPath]
       IN  IF flist.kind # "file"
           THEN /\ ret' = Package(pkgCfg)
                /\ pc' = "return"
                /\ UNCHANGED <<filesToScan, idx, pkg>>
           ELSE IF ~flist.utf8
           THEN /\ pc' = "raise"
                /\ UNCHANGED <<filesToScan, idx, pkg, ret>>
           ELSE /\ filesToScan' = StrippedLines(flist.lines)
                /\ pkg' = Package(pkgCfg)
                /\ idx' = 1
                /\ pc' = "loop"
                /\ UNCHANGED ret
    /\ UNCHANGED <<f, uuids>>
    /\ UNCHANGED callerVars

\* lines 48-60: read the file list; OSError returns None, a decoding error is
\* not caught and leaves scanPackage as an exception
LoadFileList ==
    /\ pc = "load"
    /\ LET flist == listFile[pkgCfg.fileListPath]
       IN  IF flist.kind # "file"
           THEN /\ ret' = NoneObject
                /\ pc' = "return"
                /\ UNCHANGED <<filesToScan, idx, pkg>>
           ELSE IF ~flist.utf8
           THEN /\ pc' = "raise"
                /\ UNCHANGED <<filesToScan, idx, pkg, ret>>
           ELSE /\ filesToScan' = StrippedLines(flist.lines)
                /\ pkg' = Package(pkgCfg)
                /\ idx' = 1
                /\ pc' = "loop"
                /\ UNCHANGED ret
    /\ UNCHANGED <<f, uuids>>
    /\ UNCHANGED callerVars

\* the File scanPackage registers for fileRelPath, with its n-th uuid
NewFile(fileRelPath, n) ==
    [File EXCEPT !.relpath = fileRelPath,
                 !.abspath = AbsPath(pkgCfg.basedir, fileRelPath),
                 !.spdxID = FileSPDXID(n)]

\* lines 63-68: the next fileRelPath; create its File and add it to pkg.files
CreateFile ==
    /\ pc = "loop"
    /\ idx <= Len(filesToScan)
    /\ LET file == NewFile(filesToScan[idx], uuids + 1)
       IN  /\ pkg' = [pkg EXCEPT !.files = DictSet(pkg.files, file.spdxID, file)]
           /\ f' = file.spdxID
    /\ uuids' = uuids + 1
    /\ pc' = "hash"
    /\ UNCHANGED <<filesToScan, idx, ret>>
    /\ UNCHANGED callerVars

\* f with its hashes set (lines 74-77)
WithHashes(file, hashes, doSHA256) ==
    [file EXCEPT !.sha1 = hashes[1],
                 !.sha256 = IF doSHA256 THEN hashes[2] ELSE file.sha256]

\* HashFile, had a hash failure ended the loop (break for continue)
HashFile_StopsAtFailure ==
    /\ pc = "hash"
    /\ LET file == DictGet(pkg.files, f)
           hashes == getHashes(file.abspath)
       IN  IF hashes = None
           THEN /\ idx' = Len(filesToScan) + 1
                /\ pc' = "loop"
                /\ UNCHANGED pkg
           ELSE /\ pkg' = [pkg EXCEPT !.files =
                             DictSet(pkg.files, f, WithHashes(file, hashes, scanCfg.doSHA256))]
                /\ pc' = "license"
                /\ UNCHANGED idx
    /\ UNCHANGED <<filesToScan, f, ret, uuids>>
    /\ UNCHANGED callerVars

\* lines 70-77: hash the file; on failure go on with the next path
HashFile ==
    /\ pc = "hash"
    /\ LET file == DictGet(pkg.files, f)
           hashes == getHashes(file.abspath)
       IN  IF hashes = None
           THEN /\ idx' = idx + 1
                /\ pc' = "loop"
                /\ UNCHANGED pkg
           ELSE /\ pkg' = [pkg EXCEPT !.files =
                             DictSet(pkg.files, f, WithHashes(file, hashes, scanCfg.doSHA256))]
                /\ pc' = "license"
                /\ UNCHANGED idx
    /\ UNCHANGED <<filesToScan, f, ret, uuids>>
    /\ UNCHANGED callerVars

\* f with the license data of expression (lines 81-84)
WithLicenses(file, expression, shouldConcludeFileLicenses) ==
    IF expression # None /\ expression # <<>>
    THEN [file EXCEPT !.concludedLicense = IF shouldConcludeFileLicenses THEN expression
                                           ELSE file.concludedLicense,
                      !.licenseInfoInFile = splitExpression(expression)]
    ELSE file

\* lines 79-84: scan the file for its license expression
ScanLicense ==
    /\ pc = "license"
    /\ LET file == DictGet(pkg.files, f)
           expression == getExpressionData(FileAt(file.abspath), scanCfg.numLinesScanned)
       IN  pkg' = [pkg EXCEPT !.files =
                     DictSet(pkg.files, f,
                             WithLicenses(file, expression, scanCfg.shouldConcludeFileLicenses))]
    /\ idx' = idx + 1
    /\ pc' = "loop"
    /\ UNCHANGED <<filesToScan, f, ret, uuids>>
    /\ UNCHANGED callerVars

\* Assembled, had licenseInfoFromFiles been set only when the license is concluded
Assembled_InfoOnlyWhenConcluding(p, cfg) ==
    LET lics == getPackageLicenses(DictValues(p.files))
    IN  [p EXCEPT !.concludedLicense = IF cfg.shouldConcludePackageLicense
                                       THEN normalizeExpression(lics[1])
                                       ELSE p.concludedLicense,
                  !.licenseInfoFromFiles = IF cfg.shouldConcludePackageLicense
                                           THEN lics[2] ELSE p.licenseInfoFromFiles,
                  !.verificationCode = calculateVerificationCode(DictValues(p.files))]

\* pkg with its package-level data (lines 87-91)
Assembled(p, cfg) ==
    LET lics == getPackageLicenses(DictValues(p.files))
    IN  [p EXCEPT !.concludedLicense = IF cfg.shouldConcludePackageLicense
                                       THEN normalizeExpression(lics[1])
                                       ELSE p.concludedLicense,
                  !.licenseInfoFromFiles = lics[2],
                  !.verificationCode = calculateVerificationCode(DictValues(p.files))]

\* AssemblePackage, had the package data been assembled when the last path is
\* reached rather than after it
AssemblePackage_BeforeLastPath ==
    /\ pc = "loop"
    /\ idx >= Len(filesToScan)
    /\ pkg' = Assembled(pkg, scanCfg)
    /\ ret' = pkg'
    /\ pc' = "return"
    /\ UNCHANGED <<filesToScan, idx, f, uuids>>
    /\ UNCHANGED callerVars

\* lines 86-93: after the loop, assemble the Package data and return pkg
AssemblePackage ==
    /\ pc = "loop"
    /\ idx > Len(filesToScan)
    /\ pkg' = Assembled(pkg, scanCfg)
    /\ ret' = pkg'
    /\ pc' = "return"
    /\ UNCHANGED <<filesToScan, idx, f, uuids>>
    /\ UNCHANGED callerVars

NextScan == LoadFileList \/ CreateFile \/ HashFile \/ ScanLicense \/ AssemblePackage

SpecScan == InitScan /\ [][NextScan]_vars

(***************************************************************************)
(* sbom.py: makeSPDXDocument.                                              *)
(***************************************************************************)
\* a Relationship with refA, refB and rlnType set
Relationship(refA, refB, rlnType) == [refA |-> refA, refB |-> refB, rlnType |-> rlnType]

\* Document(cfg)
Document(cfg) ==
    [isNone |-> FALSE, cfg |-> cfg, pkgs |-> <<>>, relationships |-> <<>>]

\* makeSPDXDocument, had GENERATED_FROM pointed from sources to builds
makeSPDXDocument_GeneratedFromReversed(cfg, src, build) ==
    LET docCfg == [name |-> cfg.packageName \o " sources and builds",
                   namespace |-> cfg.namespacePrefix]
        doc0 == Document(docCfg)
        doc1 == [doc0 EXCEPT
                   !.pkgs = DictSet(doc0.pkgs, src.cfg.spdxID, src),
                   !.relationships = Append(doc0.relationships,
                       Relationship("SPDXRef-DOCUMENT", src.cfg.spdxID, "DESCRIBES"))]
        doc2 == [doc1 EXCEPT
                   !.pkgs = DictSet(doc1.pkgs, build.cfg.spdxID, build),
                   !.relationships = Append(doc1.relationships,
                       Relationship("SPDXRef-DOCUMENT", build.cfg.spdxID, "DESCRIBES"))]
    IN  [doc2 EXCEPT
           !.relationships = Append(doc2.relationships,
               Relationship(src.cfg.spdxID, build.cfg.spdxID, "GENERATED_FROM"))]

\* makeSPDXDocument(sbomCfg, srcPkg, buildPkg), for two Packages
makeSPDXDocument(cfg, src, build) ==
    LET docCfg == [name |-> cfg.packageName \o " sources and builds",
                   namespace |-> cfg.namespacePrefix]
        doc0 == Document(docCfg)
        doc1 == [doc0 EXCEPT
                   !.pkgs = DictSet(doc0.pkgs, src.cfg.spdxID, src),
                   !.relationships = Append(doc0.relationships,
                       Relationship("SPDXRef-DOCUMENT", src.cfg.spdxID, "DESCRIBES"))]
        doc2 == [doc1 EXCEPT
                   !.pkgs = DictSet(doc1.pkgs, build.cfg.spdxID, build),
                   !.relationships = Append(doc1.relationships,
                       Relationship("SPDXRef-DOCUMENT", build.cfg.spdxID, "DESCRIBES"))]
    IN  [doc2 EXCEPT
           !.relationships = Append(doc2.relationships,
               Relationship(build.cfg.spdxID, src.cfg.spdxID, "GENERATED_FROM"))]

(***************************************************************************)
(* writer.py: the JSON projection.  creationInfo (the time of the run and  *)
(* the tool version) is left out.                                          *)
(***************************************************************************)
\* makeSPDXJSONFile(f)
makeSPDXJSONFile(file) ==
    [SPDXID |-> file.spdxID,
     fileName |-> file.relpath,
     licenseConcluded |-> file.concludedLicense,
     licenseInfoInFiles |-> file.licenseInfoInFile,
     copyrightText |-> file.copyrightText,
     checksums |-> <<[algorithm |-> "SHA1", checksumValue |-> file.sha1]>>
                   \o IF file.sha256 # <<>>
                      THEN <<[algorithm |-> "SHA256", checksumValue |-> file.sha256]>>
                      ELSE <<>>]

\* makeSPDXJSONPackage(p, docFiles): the package's dict (the optional keys
\* versionInfo and supplier are "" when left out)
makeSPDXJSONPackage(p) ==
    [SPDXID |-> p.cfg.spdxID,
     name |-> p.cfg.name,
     versionInfo |-> p.cfg.version,
     supplier |-> IF p.cfg.supplierOrg # "" THEN "Organization: " \o p.cfg.supplierOrg
                  ELSE IF p.cfg.supplierPerson # "" THEN "Person: " \o p.cfg.supplierPerson
                  ELSE "",
     licenseDeclared |-> p.cfg.declaredLicense,
     copyrightText |-> p.cfg.copyrightText,
     downloadLocation |-> NOASSERTION,
     licenseConcluded |-> p.concludedLicense,
     licenseInfoFromFiles |-> p.licenseInfoFromFiles,
     filesAnalyzed |-> TRUE,
     packageVerificationCode |-> [packageVerificationCodeValue |-> p.verificationCode],
     hasFiles |-> DictKeys(p.files)]

\* PackageJSONFiles, had it left out the Files that have no hash
PackageJSONFiles_SkipsUnhashed(p) ==
    LET hashed == SelectSeq(DictValues(p.files), LAMBDA file : file.sha1 # <<>>)
    IN  [i \in 1..Len(hashed) |-> makeSPDXJSONFile(hashed[i])]

\* makeSPDXJSONPackage(p, docFiles): what it appends to docFiles
PackageJSONFiles(p) ==
    [i \in 1..Len(p.files) |-> makeSPDXJSONFile(p.files[i].v)]

\* makeSPDXJSONOtherLicensingInfo(doc)
makeSPDXJSONOtherLicensingInfo(d) ==
    LET pkgs == Range(DictValues(d.pkgs))
        licenseRefs ==
            {p.cfg.declaredLicense : p \in {q \in pkgs : StartsWith(q.cfg.declaredLicense, LicenseRefPrefix)}}
            \cup UNION {{l \in Range(p.licenseInfoFromFiles) : StartsWith(l, LicenseRefPrefix)} : p \in pkgs}
        sorted == SortedOfSet(licenseRefs)
    IN  [i \in 1..Len(sorted) |->
            [licenseId |-> sorted[i], extractedText |-> sorted[i], name |-> sorted[i]]]

\* the files of the packages d.pkgs[lo..hi], in order
RECURSIVE DocFiles(_, _, _)
DocFiles(d, lo, hi) ==
    IF lo > hi THEN <<>>
    ELSE DocFiles(d, lo, hi - 1) \o PackageJSONFiles(d.pkgs[hi].v)

\* makeSPDXJSONDocument(doc) (hasExtractedLicensingInfos is <<>> when left out)
makeSPDXJSONDocument(d) ==
    [isNone |-> FALSE,
     spdxVersion |-> "SPDX-2.2",
     dataLicense |-> "CC0-1.0",
     SPDXID |-> "SPDXRef-DOCUMENT",
     name |-> d.cfg.name,
     documentNamespace |-> d.cfg.namespace,
     documentDescribes |-> DictKeys(d.pkgs),
     packages |-> [i \in 1..Len(d.pkgs) |-> makeSPDXJSONPackage(d.pkgs[i].v)],
     files |-> DocFiles(d, 1, Len(d.pkgs)),
     relationships |-> [i \in 1..Len(d.relationships) |->
                           [spdxElementId |-> d.relationships[i].refA,
                            relatedSpdxElement |-> d.relationships[i].refB,
                            relationshipType |-> d.relationships[i].rlnType]],
     hasExtractedLicensingInfos |-> makeSPDXJSONOtherLicensingInfo(d)]

(***************************************************************************)
(* sbom.py: makeAndWriteSPDX.                                              *)
(***************************************************************************)
\* line 174: srcPkg = scanPackage(...); lines 176-196: the builds package's
\* configuration and the call of scanPackage for it
ScanSourcesReturns ==
    /\ phase = "sources"
    /\ pc = "return"
    /\ srcPkg' = ret
    /\ phase' = "builds"
    /\ scanCfg' = ScannerConfig
    /\ pkgCfg' = PackageConfigBuilds(sbomCfg)
    /\ pc' = "load"
    /\ filesToScan' = <<>>
    /\ idx' = 0
    /\ pkg' = NoneObject
    /\ f' = ""
    /\ ret' = NoneObject
    /\ UNCHANGED <<sbomCfg, listFile, uuids, buildPkg, doc, written>>

\* line 196: buildPkg = scanPackage(...)
ScanBuildsReturns ==
    /\ phase = "builds"
    /\ pc = "return"
    /\ buildPkg' = ret
    /\ phase' = "document"
    /\ pc' = "idle"
    /\ UNCHANGED <<sbomCfg, listFile, scanCfg, pkgCfg, srcPkg, doc, written>>
    /\ UNCHANGED scanLocals

\* an exception of scanPackage is caught nowhere and ends the run
ScanRaises ==
    /\ phase \in {"sources", "builds"}
    /\ pc = "raise"
    /\ phase' = "crashed"
    /\ pc' = "idle"
    /\ UNCHANGED <<sbomCfg, listFile, scanCfg, pkgCfg, srcPkg, buildPkg, doc, written>>
    /\ UNCHANGED scanLocals

\* line 199: doc = makeSPDXDocument(sbomCfg, srcPkg, buildPkg); with srcPkg or
\* buildPkg None, <None>.cfg raises AttributeError, which ends the run
MakeDocument ==
    /\ phase = "document"
    /\ IF srcPkg.isNone \/ buildPkg.isNone
       THEN /\ phase' = "crashed"
            /\ UNCHANGED doc
       ELSE /\ doc' = makeSPDXDocument(sbomCfg, srcPkg, buildPkg)
            /\ phase' = "write"
    /\ UNCHANGED <<sbomCfg, listFile, scanCfg, pkgCfg, pc, srcPkg, buildPkg, written>>
    /\ UNCHANGED scanLocals

\* line 202: writeSPDX(sbomCfg.outputDir, doc, sbomCfg.pretty); opening the
\* output file can fail (OSError), which ends the run
WriteSPDX ==
    /\ phase = "write"
    /\ \E opened \in BOOLEAN :
          IF opened
          THEN /\ written' = makeSPDXJSONDocument(doc)
               /\ phase' = "done"
          ELSE /\ phase' = "crashed"
               /\ UNCHANGED written
    /\ UNCHANGED <<sbomCfg, listFile, scanCfg, pkgCfg, pc, srcPkg, buildPkg, doc>>
    /\ UNCHANGED scanLocals

Next ==
    \/ LoadFileList \/ CreateFile \/ HashFile \/ ScanLicense \/ AssemblePackage
    \/ ScanSourcesReturns \/ ScanBuildsReturns \/ ScanRaises
    \/ MakeDocument \/ WriteSPDX

Spec == Init /\ [][Next]_vars

(***************************************************************************)
(* Properties.                                                             *)
(***************************************************************************)
\* the file list at path can be opened and read as text
ListReadable(path) == listFile[path].kind = "file" /\ listFile[path].utf8

\* scanPackage has returned a Package
Returned == pc = "return" /\ ~ret.isNone

\* the Files of a Package, in the order they were added
FilesOf(p) == DictValues(p.files)

\* C1: when the file list of a package cannot be opened or read, scanPackage
\* creates and returns no Package, and makeAndWriteSPDX neither gets a document
\* from makeSPDXDocument nor writes one.
C1_ListFailureIsPropagated ==
    LET srcBad == ~ListReadable(sbomCfg.sourceList)
        buildBad == ~ListReadable(sbomCfg.buildList)
    IN  /\ srcBad => /\ srcPkg.isNone
                     /\ phase = "sources" => pkg.isNone /\ ret.isNone /\ pc # "loop"
        /\ buildBad => /\ buildPkg.isNone
                       /\ phase = "builds" => pkg.isNone /\ ret.isNone /\ pc # "loop"
        /\ (srcBad \/ buildBad) => /\ doc.isNone
                                   /\ written.isNone
                                   /\ phase \notin {"write", "done"}

\* the sources list is missing, the builds package was scanned, the run ended
\* in makeSPDXDocument's exception
C1_Witness ==
    /\ listFile[sbomCfg.sourceList].kind = "missing"
    /\ ~buildPkg.isNone
    /\ Len(buildPkg.files) > 0
    /\ phase = "crashed"

\* what scanPackage leaves in the File for list entry i when hashing succeeded
ScannedFile(file) ==
    LET onDisk == FileAt(file.abspath)
        expression == getExpressionData(onDisk, scanCfg.numLinesScanned)
        found == expression # None /\ expression # <<>>
    IN  /\ file.sha1 = sha1_hexdigest(Bytes(onDisk))
        /\ file.sha1 # <<>>
        /\ file.sha256 = IF scanCfg.doSHA256 THEN sha256_hexdigest(Bytes(onDisk)) ELSE <<>>
        /\ file.licenseInfoInFile = IF found THEN splitExpression(expression) ELSE <<>>
        /\ file.concludedLicense = IF found /\ scanCfg.shouldConcludeFileLicenses
                                   THEN expression ELSE NOASSERTION

\* C2: a failure to hash one file is per-file only: the returned Package has
\* exactly one File per list entry, in list order; a File whose hashing failed
\* has empty hashes and the default license fields; every other File, also
\* after a failed one, is hashed and license-scanned.
C2_HashFailureIsPerFile ==
    Returned =>
        LET lines == listFile[pkgCfg.fileListPath].lines
            files == FilesOf(ret)
        IN  /\ Len(files) = Len(lines)
            /\ \A i \in 1..Len(files) :
                  /\ files[i].relpath = RStrip(lines[i], Whitespace)
                  /\ files[i].abspath = AbsPath(pkgCfg.basedir, files[i].relpath)
                  /\ IF FileAt(files[i].abspath).kind # "file"
                     THEN /\ files[i].sha1 = <<>>
                          /\ files[i].sha256 = <<>>
                          /\ files[i].concludedLicense = NOASSERTION
                          /\ files[i].licenseInfoInFile = <<>>
                     ELSE ScannedFile(files[i])

\* hashing the first file failed and the second file has its hashes and licenses
C2_Witness ==
    /\ Returned
    /\ Len(ret.files) = 2
    /\ FileAt(FilesOf(ret)[1].abspath).kind # "file"
    /\ FilesOf(ret)[1].sha1 = <<>>
    /\ FilesOf(ret)[2].sha1 # <<>>
    /\ FilesOf(ret)[2].licenseInfoInFile # <<>>

\* seq is in lexicographic order
IsSorted(seq) == \A i \in 1..(Len(seq) - 1) : StrLeq(seq[i], seq[i + 1])

\* the permutations of 1..n
Perms(n) == {p \in [1..n -> 1..n] : \A i, j \in 1..n : p[i] = p[j] => i = j}

\* C3: the verification code is the digest of the sha1 strings of all Files
\* (the empty string for a File whose hashing failed) in lexicographic order,
\* concatenated without separator; computing it from the Files in any other
\* order gives the same value.
C3_VerificationCodeOfMultiset ==
    Returned =>
        LET files == FilesOf(ret)
            n == Len(files)
        IN  \A p \in Perms(n) :
              LET permuted == [i \in 1..n |-> files[p[i]]]
                  hashes == [i \in 1..n |-> permuted[i].sha1]
              IN  /\ calculateVerificationCode(permuted) = ret.verificationCode
                  /\ IsSorted(hashes) =>
                        ret.verificationCode = sha1_hexdigest(Join(<<>>, hashes))

\* two Files were added with their sha1 strings in descending order, and the
\* order of the digests changes the digest of their concatenation
C3_Witness ==
    /\ Returned
    /\ \E i, j \in 1..Len(ret.files) :
          LET a == FilesOf(ret)[i].sha1
              b == FilesOf(ret)[j].sha1
          IN  /\ i < j
              /\ b # <<>>
              /\ StrLess(b, a)
              /\ sha1_hexdigest(a \o b) # sha1_hexdigest(b \o a)

\* the distinct concluded licenses of the Files of p
DistinctConcluded(p) == {file.concludedLicense : file \in Range(FilesOf(p))}

Sentinels == {NONE, NOASSERTION}

\* C4: the package-level concluded license that normalizeExpression produces is
\* never the empty string, and when the distinct file concluded licenses are
\* the two sentinels NONE and NOASSERTION it is NOASSERTION.  (A single distinct
\* license, a sentinel or not, is returned verbatim: C5.)
C4_ConcludedLicenseWellFormed ==
    (Returned /\ scanCfg.shouldConcludePackageLicense) =>
        /\ ret.concludedLicense # <<>>
        /\ DistinctConcluded(ret) = Sentinels => ret.concludedLicense = NOASSERTION

\* lic as it stands in the combined expression
InParensIfSpace(lic) ==
    IF \E i \in 1..Len(lic) : lic[i] = " " THEN <<"(">> \o lic \o <<")">> ELSE lic

\* C5: the package concluded license is NOASSERTION for zero distinct file
\* concluded licenses, the single one verbatim for exactly one, and for more
\* than one those that are not NONE or NOASSERTION, each in parentheses if and
\* only if it contains a space, joined by ' AND ' in lexicographic order.
C5_NormalizeExpression ==
    /\ normalizeExpression(<<>>) = NOASSERTION
    /\ normalizeExpression(<<MIT>>) = MIT
    /\ normalizeExpression(<<Apache20, MIT>>) = Apache20 \o AndSep \o MIT
    /\ normalizeExpression(<<MIT, NOASSERTION>>) = MIT
    /\ (Returned /\ scanCfg.shouldConcludePackageLicense) =>
          LET distinct == DistinctConcluded(ret)
              kept == distinct \ Sentinels
              n == Cardinality(kept)
          IN  IF distinct = {} THEN ret.concludedLicense = NOASSERTION
              ELSE IF Cardinality(distinct) = 1 THEN ret.concludedLicense \in distinct
              ELSE \E order \in [1..n -> kept] :
                      /\ \A i \in 1..(n - 1) : StrLess(order[i], order[i + 1])
                      /\ ret.concludedLicense =
                            Join(AndSep, [i \in 1..n |-> InParensIfSpace(order[i])])

\* two Files with different licenses, one of them an expression with a space
C5_Witness ==
    /\ Returned
    /\ scanCfg.shouldConcludePackageLicense
    /\ DistinctConcluded(ret) = {MIT, MITorApache}
    /\ ret.concludedLicense = MIT \o AndSep \o <<"(">> \o MITorApache \o <<")">>

\* C6: the licenseInfoInFile of every File is sorted, holds no identifier twice,
\* holds no empty token, and no token holds a parenthesis, a '+' or a space.
C6_LicenseInfoInFileIsSortedSet ==
    ~pkg.isNone =>
        \A file \in Range(FilesOf(pkg)) :
            LET tokens == file.licenseInfoInFile
            IN  /\ \A i \in 1..(Len(tokens) - 1) : StrLess(tokens[i], tokens[i + 1])
                /\ \A i \in 1..Len(tokens) :
                      /\ tokens[i] # <<>>
                      /\ \A k \in 1..Len(tokens[i]) : tokens[i][k] \notin {"(", ")", "+", " "}

\* line contains the marker SPDX-License-Identifier:
HasTag(line) == \E i \in 1..Len(line) : StartsWithAt(line, i, SPDXTag)

\* C7: the expression taken for a File is that of the first line with the
\* marker among the first numLinesScanned lines (all lines when it is 0); with
\* the marker only further down, or nowhere, the File keeps concludedLicense
\* NOASSERTION and an empty licenseInfoInFile.
C7_FirstTagWithinWindow ==
    Returned =>
        \A file \in Range(FilesOf(ret)) :
            LET onDisk == FileAt(file.abspath)
                lines == onDisk.lines
                numLines == scanCfg.numLinesScanned
                window == IF numLines = 0 THEN 1..Len(lines)
                          ELSE {i \in 1..Len(lines) : i <= numLines}
                tagged == {i \in window : HasTag(lines[i])}
            IN  (onDisk.kind = "file" /\ onDisk.utf8) =>
                   IF tagged = {}
                   THEN /\ file.concludedLicense = NOASSERTION
                        /\ file.licenseInfoInFile = <<>>
                   ELSE LET first == CHOOSE i \in tagged : \A k \in tagged : i <= k
                            after == PartitionAfter(lines[first], SPDXTag)
                            expression == Strip(RStrip(Strip(after), {"/", "*"}))
                        IN  /\ file.licenseInfoInFile =
                                  IF expression = <<>> THEN <<>> ELSE splitExpression(expression)
                            /\ file.concludedLicense =
                                  IF expression # <<>> /\ scanCfg.shouldConcludeFileLicenses
                                  THEN expression ELSE NOASSERTION

\* with two lines scanned, one File has its tag on line 2 and its license, and
\* one has its tag on line 3 and no license
C7_Witness ==
    /\ Returned
    /\ scanCfg.numLinesScanned = 2
    /\ \E a, b \in Range(FilesOf(ret)) :
          /\ Len(FileAt(a.abspath).lines) = 2
          /\ HasTag(FileAt(a.abspath).lines[2])
          /\ a.concludedLicense = MIT
          /\ Len(FileAt(b.abspath).lines) = 3
          /\ HasTag(FileAt(b.abspath).lines[3])
          /\ b.concludedLicense = NOASSERTION
          /\ b.sha1 # <<>>

\* C8: licenseInfoFromFiles is the sorted, duplicate-free union of the
\* licenseInfoInFile tokens of all Files, whether or not the package license is
\* concluded; with shouldConcludePackageLicense off the package
\* concludedLicense stays NOASSERTION.
C8_LicenseInfoFromFiles ==
    Returned =>
        LET tokens == ret.licenseInfoFromFiles
        IN  /\ \A i \in 1..(Len(tokens) - 1) : StrLess(tokens[i], tokens[i + 1])
            /\ Range(tokens) = UNION {Range(file.licenseInfoInFile) : file \in Range(FilesOf(ret))}
            /\ ~scanCfg.shouldConcludePackageLicense => ret.concludedLicense = NOASSERTION

\* the package license is not concluded, the Files have licenses, and the
\* package lists their tokens
C8_Witness ==
    /\ Returned
    /\ ~scanCfg.shouldConcludePackageLicense
    /\ \E file \in Range(FilesOf(ret)) : file.concludedLicense = MITorApache
    /\ \E file \in Range(FilesOf(ret)) : file.concludedLicense = MIT
    /\ ret.licenseInfoFromFiles = <<Apache20, MIT>>

\* C9: the Document of makeSPDXDocument has exactly the sources and the builds
\* package registered and exactly three relationships: DESCRIBES from the
\* document to each package, GENERATED_FROM from builds to sources; the
\* projected documentDescribes holds both package ids.
C9_DocumentAssembly ==
    LET src == "SPDXRef-Package-sources"
        build == "SPDXRef-Package-builds"
    IN  /\ ~doc.isNone =>
              /\ Len(doc.pkgs) = 2
              /\ {doc.pkgs[i].k : i \in 1..Len(doc.pkgs)} = {src, build}
              /\ DictGet(doc.pkgs, src) = srcPkg
              /\ DictGet(doc.pkgs, build) = buildPkg
              /\ Len(doc.relationships) = 3
              /\ Range(doc.relationships) =
                    {[refA |-> "SPDXRef-DOCUMENT", refB |-> src, rlnType |-> "DESCRIBES"],
                     [refA |-> "SPDXRef-DOCUMENT", refB |-> build, rlnType |-> "DESCRIBES"],
                     [refA |-> build, refB |-> src, rlnType |-> "GENERATED_FROM"]}
        /\ ~written.isNone =>
              /\ Range(written.documentDescribes) = {src, build}
              /\ Len(written.packages) = 2
              /\ Len(written.relationships) = 3
        /\ (phase \in {"write", "done"} /\ ~srcPkg.isNone /\ ~buildPkg.isNone) => ~doc.isNone
        /\ phase = "done" => ~written.isNone

\* the document of two scanned packages, each with a File, was written
C9_Witness ==
    /\ phase = "done"
    /\ ~written.isNone
    /\ Len(srcPkg.files) > 0
    /\ Len(buildPkg.files) > 0

\* C10: in every Package scanPackage returns, no two Files have the same
\* relativePath and no two Files have the same id.
C10_UniquePathsAndIds ==
    Returned =>
        LET files == FilesOf(ret)
        IN  \A i, j \in 1..Len(files) :
               i # j => /\ files[i].relpath # files[j].relpath
                        /\ files[i].spdxID # files[j].spdxID

\* C11: the projection drops and duplicates nothing: one entry of packages per
\* registered Package; one entry of files per File, no SPDXID twice, as many as
\* the packages have Files together; each package's hasFiles lists exactly the
\* ids of its own Files, each the SPDXID of an entry of files.
C11_ProjectionKeepsEverything ==
    ~written.isNone =>
        LET inMemory == <<srcPkg, buildPkg>>
            fileIds == [i \in 1..Len(written.files) |-> written.files[i].SPDXID]
        IN  /\ Len(written.packages) = Len(doc.pkgs)
            /\ Len(written.packages) = 2
            /\ \A j \in 1..2 :
                  LET own == [i \in 1..Len(inMemory[j].files) |-> FilesOf(inMemory[j])[i].spdxID]
                  IN  /\ written.packages[j].SPDXID = inMemory[j].cfg.spdxID
                      /\ written.packages[j].hasFiles = own
                      /\ Range(own) \subseteq Range(fileIds)
            /\ \A i, k \in 1..Len(fileIds) : fileIds[i] = fileIds[k] => i = k
            /\ Len(written.files) = Len(srcPkg.files) + Len(buildPkg.files)
            /\ Range(fileIds) = Range(written.packages[1].hasFiles)
                                \cup Range(written.packages[2].hasFiles)
            /\ \A i \in 1..Len(written.files) :
                  \E j \in 1..2 : \E file \in Range(FilesOf(inMemory[j])) :
                      /\ file.spdxID = written.files[i].SPDXID
                      /\ file.relpath = written.files[i].fileName

\* a document of three Files was written: two of the sources package, one of
\* them not hashed, and one of the builds package
C11_Witness ==
    /\ ~written.isNone
    /\ Len(srcPkg.files) = 2
    /\ Len(buildPkg.files) = 1
    /\ \E file \in Range(FilesOf(srcPkg)) : file.sha1 = <<>>
    /\ Len(written.files) = 3

\* the LicenseRef- tokens of the declared license expression and of the
\* file-derived licenses of package p
LicenseRefTokens(p) ==
    {l \in Range(splitExpression(p.cfg.declaredLicense)) \cup Range(p.licenseInfoFromFiles) :
        StartsWith(l, LicenseRefPrefix)}

\* C12: the written document has a hasExtractedLicensingInfos section iff some
\* LicenseRef- token appears in the declared license expression or in the
\* file-derived licenses of a Package, and the section lists each such token
\* once, as a single token, in sorted order.
C12_ExtractedLicensingInfos ==
    ~written.isNone =>
        LET tokens == LicenseRefTokens(srcPkg) \cup LicenseRefTokens(buildPkg)
            listed == [i \in 1..Len(written.hasExtractedLicensingInfos) |->
                          written.hasExtractedLicensingInfos[i].licenseId]
        IN  /\ (listed # <<>>) <=> (tokens # {})
            /\ listed = SortedOfSet(tokens)

\* the list file at path can be read and lists no paths
ListEmpty(path) == ListReadable(path) /\ listFile[path].lines = <<>>

\* C13: a file list that lists no paths is a hard failure of the whole Package
\* scan: scanPackage returns no Package for it (so none with zero Files), and
\* the failure is propagated: no document is written.
C13_EmptyListIsHardFailure ==
    /\ (pc = "return" /\ ListEmpty(pkgCfg.fileListPath)) => ret.isNone
    /\ (ListEmpty(sbomCfg.sourceList) \/ ListEmpty(sbomCfg.buildList)) =>
            /\ written.isNone
            /\ (ListEmpty(sbomCfg.sourceList) => srcPkg.isNone)
            /\ (ListEmpty(sbomCfg.buildList) => buildPkg.isNone)

\* the hashes, the license data and the package-level fields
HashesOf(file) == <<file.sha1, file.sha256>>
LicensesOf(file) == <<file.concludedLicense, file.licenseInfoInFile>>
PackageLevel(p) == <<p.concludedLicense, p.licenseInfoFromFiles, p.verificationCode>>

\* scanPackage is inside its pass: pkg is the Package being filled
InPass == pc \in {"loop", "hash", "license"}

\* a step that registers the File of the next path: the paths before it have
\* their Files, in list order; the new File is last and has no hash yet
RegistersNextPath ==
    /\ idx \in 1..Len(filesToScan)
    /\ Len(pkg.files) = idx - 1
    /\ Len(pkg'.files) = idx
    /\ SubSeq(pkg'.files, 1, idx - 1) = pkg.files
    /\ FilesOf(pkg')[idx].relpath = filesToScan[idx]
    /\ FilesOf(pkg')[idx].spdxID = f'
    /\ HashesOf(FilesOf(pkg')[idx]) = <<<<>>, <<>>>>
    /\ LicensesOf(FilesOf(pkg')[idx]) = LicensesOf(File)

\* a step that finalizes the package: every path has its File, in list order,
\* and the package-level fields are those of all these Files
FinalizesAfterLastPath ==
    /\ idx = Len(filesToScan) + 1
    /\ pkg'.files = pkg.files
    /\ [i \in 1..Len(pkg.files) |-> FilesOf(pkg)[i].relpath] = filesToScan
    /\ pkg'.licenseInfoFromFiles = getPackageLicenses(FilesOf(pkg))[2]
    /\ pkg'.verificationCode = calculateVerificationCode(FilesOf(pkg))
    /\ pkg'.concludedLicense =
          IF scanCfg.shouldConcludePackageLicense
          THEN normalizeExpression(getPackageLicenses(FilesOf(pkg))[1])
          ELSE pkg.concludedLicense
    /\ ret' = pkg'

\* C14: scanPackage is a single ordered pass.  Every step inside the pass is one
\* of: the File of the next path in list order is registered, unhashed; the
\* File registered last is hashed, and goes to the license scan iff its hashing
\* succeeded; the license scan of a hashed File; the finalization, after the
\* last path.  License data changes only in the license scan of a hashed File,
\* the package-level fields only in the finalization, which ends the pass.
C14_SingleOrderedPass ==
    [][InPass =>
        /\ pc = "loop" => \/ pc' = "hash" /\ RegistersNextPath
                          \/ pc' = "return" /\ FinalizesAfterLastPath
        /\ pc = "hash" =>
              /\ Len(pkg.files) = idx /\ FilesOf(pkg)[idx].spdxID = f
              /\ FilesOf(pkg)[idx].sha1 = <<>>
              /\ pc' = "license" <=> FilesOf(pkg')[idx].sha1 # <<>>
              /\ pc' = "license" <=> getHashes(FilesOf(pkg)[idx].abspath) # None
              /\ pc' # "license" => pc' = "loop" /\ idx' = idx + 1 /\ pkg' = pkg
        /\ pc = "license" =>
              /\ Len(pkg.files) = idx /\ FilesOf(pkg)[idx].spdxID = f
              /\ FilesOf(pkg)[idx].sha1 # <<>>
              /\ HashesOf(FilesOf(pkg')[idx]) = HashesOf(FilesOf(pkg)[idx])
              /\ pc' = "loop" /\ idx' = idx + 1
        /\ pc' # "return" => f' \in Range(DictKeys(pkg'.files))
        /\ \A i \in 1..Len(pkg.files) :
              /\ i <= Len(pkg'.files)
              /\ FilesOf(pkg')[i].relpath = FilesOf(pkg)[i].relpath
              /\ FilesOf(pkg')[i].spdxID = FilesOf(pkg)[i].spdxID
              /\ HashesOf(FilesOf(pkg')[i]) # HashesOf(FilesOf(pkg)[i]) => pc = "hash" /\ i = idx
              /\ LicensesOf(FilesOf(pkg')[i]) # LicensesOf(FilesOf(pkg)[i]) =>
                    pc = "license" /\ i = idx /\ FilesOf(pkg)[i].sha1 # <<>>
        /\ PackageLevel(pkg') # PackageLevel(pkg) => pc = "loop" /\ pc' = "return"
        /\ filesToScan' = filesToScan
    ]_vars

\* a pass over two paths has ended: the first File failed hashing and has no
\* license data, the second was hashed and scanned, and the package-level
\* fields cover it
C14_Witness ==
    /\ Returned
    /\ idx = 3
    /\ Len(filesToScan) = 2
    /\ FilesOf(ret)[1].sha1 = <<>>
    /\ LicensesOf(FilesOf(ret)[1]) = LicensesOf(File)
    /\ FilesOf(ret)[2].sha1 # <<>>
    /\ FilesOf(ret)[2].licenseInfoInFile # <<>>
    /\ ret.licenseInfoFromFiles = FilesOf(ret)[2].licenseInfoInFile
    /\ ret.verificationCode # <<>>

=============================================================================
